---- MODULE Spec2Model ----
(***************************************************************************)
(* Model of app.py of file-download-utility: the script creates the        *)
(* download directory, logs in, and then for every entry of                *)
(* config.DOWNLOAD_ACTIONS tries the entry's candidates in list order      *)
(* until one is downloaded, and runs the zip extraction block on the       *)
(* loop variables as the candidate loop left them.                         *)
(*                                                                         *)
(* config.DOWNLOAD_ACTIONS is an immutable input and every entry of it is  *)
(* read exactly once, so the model draws whether there is a next task and  *)
(* the length of its candidate list when the task loop gets there, and     *)
(* each candidate when the candidate loop reaches it.  Responses of the    *)
(* server and I/O outcomes are drawn when the request or the file          *)
(* operation is made.                                                      *)
(***************************************************************************)
EXTENDS Integers, Sequences, FiniteSets, TLC

\* ------------------------------------------------------------------ bounds
MaxTasks == 2

MaxCands == 2

\* ----------------------------------------------------------------- strings
\* A string is a sequence of one-character strings.
Lower == <<"a", "b", "e", "g", "m", "o", "p", "s", "t", "u", "v", "z">>

Upper == <<"A", "B", "E", "G", "M", "O", "P", "S", "T", "U", "V", "Z">>

\* str.upper() on one character
UpperChar(c) ==
  IF \E n \in 1..Len(Lower) : Lower[n] = c
    THEN Upper[CHOOSE n \in 1..Len(Lower) : Lower[n] = c]
    ELSE c

\* str.upper()
StrUpper(s) == [n \in 1..Len(s) |-> UpperChar(s[n])]

Whitespace == {" "}

RECURSIVE LStrip(_)
LStrip(s) ==
  IF s # <<>> /\ Head(s) \in Whitespace THEN LStrip(Tail(s)) ELSE s

RECURSIVE RStrip(_)
RStrip(s) ==
  IF s # <<>> /\ s[Len(s)] \in Whitespace
    THEN RStrip(SubSeq(s, 1, Len(s) - 1))
    ELSE s

\* str.strip()
StrStrip(s) == RStrip(LStrip(s))

\* v['method'].upper().strip()
NormMethod(m) == StrStrip(StrUpper(m))

POST == <<"P", "O", "S", "T">>

GET == <<"G", "E", "T">>

\* a dispatch whose last branch takes every other method
AnyMethodSupported(m) == TRUE

\* the method is one the dispatch of lines 123-138 supports
SupportedMethod(m) == NormMethod(m) = POST \/ NormMethod(m) = GET

\* the text before the last period, as a path's stem is usually taken
RECURSIVE StemAtLastPeriod(_)
StemAtLastPeriod(s) ==
  IF \A j \in 1..Len(s) : s[j] # "." THEN s
  ELSE IF s[Len(s)] = "." THEN SubSeq(s, 1, Len(s) - 1)
  ELSE StemAtLastPeriod(SubSeq(s, 1, Len(s) - 1))

\* v['filename'].split('.')[0]: the text before the first period
RECURSIVE Stem(_)
Stem(s) ==
  IF s = <<>> \/ Head(s) = "." THEN <<>> ELSE <<Head(s)>> \o Stem(Tail(s))

\* -------------------------------------------------------- configuration
Methods == { <<"g", "e", "t">>, <<" ", "P", "o", "s", "t", " ">>,
             <<"p", "u", "t">> }

Filenames == { <<"a", ".", "z">>, <<"b", ".", "v", ".", "z">> }

Members == { <<"m">> }

FinalDestinations == { "final" }

\* one dictionary of a DOWNLOAD_ACTIONS value (URL and metadata only reach
\* the request and the log)
Candidates ==
  [method : Methods, filename : Filenames, extract_zip : BOOLEAN,
   zip_member_to_extract : Members,
   zip_member_final_destination : FinalDestinations]

\* a name of the script's namespace is unbound or bound to a value
Unbound == <<>>

Bound(x) == <<x>>

Value(name) == name[1]

\* lines 115-116: a value that is not a list is a list of one candidate
WrappedLen(isList, n) == IF isList THEN n ELSE 1

\* ------------------------------------------------------------ file system
\* pathlib's download_directory / name
DownloadPath(name) == <<"download_directory", name>>

DownloadPaths == {DownloadPath(f) : f \in Filenames}

\* zip_file_contents_directory / member
ExtractedPaths ==
  {<<DownloadPath(Stem(f)), m>> : f \in Filenames, m \in Members}

Absent == [kind |-> "absent", id |-> 0]

\* what a completed download may hold
BodyKinds == {"notzip", "zipMember", "zipNoMember", "corrupt"}

\* what a download cut short may hold
PartialKinds == {"notzip", "corrupt"}

\* a check that only looks whether the file exists
IsZipfileByExistence(f) == f.kind # "absent"

\* zipfile.is_zipfile: false for a missing file, true when the end of
\* central directory record is found
IsZipfile(f) == f.kind \in {"zipMember", "zipNoMember", "corrupt"}

\* ------------------------------------------------------------------- state
VARIABLES
  pc,                    \* position of the script
  crash,                 \* the uncaught exception that ended the run
  k,                     \* tasks the task loop has taken
  n,                     \* len(v_list)
  i,                     \* candidates of v_list the loop has taken
  v,                     \* loop variable of the candidate loop
  download_destination,  \* path assigned at line 141
  login_session,         \* the requests.Session of line 98
  login_response,        \* status of the login POST
  download_response,     \* status of the last download response
  fetches,               \* sessions of the download requests of task k
  files,                 \* files of the download directory
  extracted,             \* files of the extraction directories
  final,                 \* files at the final destinations
  log                    \* messages logged since task k started

vars == <<pc, crash, k, n, i, v, download_destination, login_session,
          login_response, download_response, fetches, files, extracted,
          final, log>>

Init ==
  /\ pc = "mkdir"
  /\ crash = "none"
  /\ k = 0
  /\ n = 0
  /\ i = 0
  /\ v = Unbound
  /\ download_destination = Unbound
  /\ login_session = Unbound
  /\ login_response = Unbound
  /\ download_response = Unbound
  /\ fetches = <<>>
  /\ files = [p \in DownloadPaths |-> Absent]
  /\ extracted = [p \in ExtractedPaths |-> Absent]
  /\ final \in [FinalDestinations -> {Absent, [kind |-> "member", id |-> 0]}]
  /\ log = <<>>

\* an exception nothing catches ends the script
Raise(e) == pc' = "crashed" /\ crash' = e

\* ------------------------------------------------ lines 88-95: mkdir
MakeDownloadDirectory ==
  /\ pc = "mkdir"
  /\ \E exists_as_file \in BOOLEAN :
       IF exists_as_file
         THEN Raise("NotADirectoryError")
         ELSE pc' = "login" /\ crash' = crash
  /\ UNCHANGED <<k, n, i, v, download_destination, login_session,
                 login_response, download_response, fetches, files,
                 extracted, final, log>>

\* ------------------------------------------------ lines 98-110: login
codes_ok == 200

\* the request raised before any response arrived
NoResponse == 0

LoginResponses == {NoResponse, codes_ok, 403, 500}

\* a login that never calls raise_for_status()
RaisesOnlyWithoutResponse(r) == r = NoResponse

\* Response.raise_for_status() raises HTTPError for 4xx and 5xx; a
\* request that gets no response raises inside post()
RaisesRequestException(r) == r = NoResponse \/ (r >= 400 /\ r < 600)

\* line 98 and lines 101-104: a new session and the one POST made on it
NewSession == [id |-> 1, logins |-> 1]

Login ==
  /\ pc = "login"
  /\ login_session' = Bound(NewSession)
  /\ \E r \in LoginResponses :
       /\ login_response' = Bound(r)
       /\ IF RaisesRequestException(r)
            THEN Raise("ConnectionError")
            ELSE pc' = "tasks" /\ crash' = crash
  /\ UNCHANGED <<k, n, i, v, download_destination, download_response,
                 fetches, files, extracted, final, log>>

\* ------------------------------------------------ lines 114-116: task loop
\* a task loop that goes on to the next item right after a download
NextTaskSkipsExtraction ==
  /\ pc \in {"tasks", "extract"}
  /\ pc = "extract" => \E j \in 1..Len(log) : log[j] = "completed"
  /\ k < MaxTasks
  /\ k' = k + 1
  /\ \E isList \in BOOLEAN, len \in 0..MaxCands :
       n' = WrappedLen(isList, len)
  /\ i' = 0
  /\ fetches' = <<>>
  /\ log' = <<>>
  /\ pc' = "cands"
  /\ UNCHANGED <<crash, v, download_destination, login_session,
                 login_response, download_response, files, extracted, final>>

\* the dictionary has another item
NextTask ==
  /\ pc = "tasks"
  /\ k < MaxTasks
  /\ k' = k + 1
  /\ \E isList \in BOOLEAN, len \in 0..MaxCands :
       n' = WrappedLen(isList, len)
  /\ i' = 0
  /\ fetches' = <<>>
  /\ log' = <<>>
  /\ pc' = "cands"
  /\ UNCHANGED <<crash, v, download_destination, login_session,
                 login_response, download_response, files, extracted, final>>

\* ------------------------------------------------ lines 117-155: one candidate
Statuses == {codes_ok, 204, 404}

\* a break that leaves the candidate loop however the write ended
BreakOnAnyWrite(w) == TRUE

\* a candidate loop without the break of line 147
NeverBreak(w) == FALSE

\* line 147: the candidate loop is left once the body is written in full
BreakOnWrite(w) == w = "ok"

\* a status check that takes every 2xx status for a success
StatusIs2xx(status) == status >= 200 /\ status < 300

\* line 139: download_response.status_code == requests.codes.ok
StatusOk(status) == status = codes_ok

\* lines 139-149: the response is streamed to download_destination
Download(c, status) ==
  IF StatusOk(status)
    THEN
      /\ download_destination' = Bound(DownloadPath(c.filename))
      /\ \E w \in {"ok", "openfail", "partial"} :
           CASE w = "ok" ->
                  \E b \in BodyKinds :
                    /\ files' = [files EXCEPT ![DownloadPath(c.filename)] =
                                   [kind |-> b, id |-> k]]
                    /\ log' = log \o <<"attempt", "started", "completed">>
                    /\ pc' = IF BreakOnWrite(w) THEN "extract" ELSE pc
             [] w = "partial" ->
                  \E b \in PartialKinds :
                    /\ files' = [files EXCEPT ![DownloadPath(c.filename)] =
                                   [kind |-> b, id |-> k]]
                    /\ log' = log \o <<"attempt", "started", "unsuccessful">>
                    /\ pc' = IF BreakOnWrite(w) THEN "extract" ELSE pc
             [] w = "openfail" ->
                    /\ files' = files
                    /\ log' = log \o <<"attempt", "started", "unsuccessful">>
                    /\ pc' = IF BreakOnWrite(w) THEN "extract" ELSE pc
    ELSE
      /\ log' = log \o <<"attempt", "not_started">>
      /\ UNCHANGED <<pc, download_destination, files>>

\* a loop that takes the same candidate again
Retry(idx) == idx

\* line 117: the for loop takes the next candidate of the list
Advance(idx) == idx + 1

\* a download request made on a session of its own
FreshSession == Bound([id |-> 2, logins |-> 0])

\* lines 124 and 130: the download requests are made on login_session
FetchSession == login_session

Attempt ==
  /\ pc = "cands"
  /\ i < n
  /\ i' = Advance(i)
  /\ \E c \in Candidates :
       /\ v' = Bound(c)
       /\ IF SupportedMethod(c.method)
            THEN /\ fetches' = Append(fetches, Value(FetchSession).id)
                 /\ \E r \in Statuses \cup {NoResponse} :
                      IF r = NoResponse
                        THEN /\ Raise("RequestException")
                             /\ log' = log \o <<"attempt">>
                             /\ UNCHANGED <<download_destination, files,
                                            download_response>>
                        ELSE /\ download_response' = Bound(r)
                             /\ Download(c, r)
                             /\ crash' = crash
            ELSE /\ Raise("ValueError")
                 /\ log' = log \o <<"attempt", "unsupported">>
                 /\ UNCHANGED <<download_destination, files,
                                download_response, fetches>>
  /\ UNCHANGED <<k, n, login_session, login_response, extracted, final>>

\* ------------------------------------------------ lines 156-157: for/else
\* the error logged after the loop however the loop was left
LoopElseAfterBreak ==
  /\ pc \in {"cands", "extract"}
  /\ pc = "cands" => i = n
  /\ \A j \in 1..Len(log) : log[j] # "no_iteration"
  /\ log' = Append(log, "no_iteration")
  /\ pc' = "extract"
  /\ UNCHANGED <<crash, k, n, i, v, download_destination, login_session,
                 login_response, download_response, fetches, files,
                 extracted, final>>

LoopElse ==
  /\ pc = "cands"
  /\ i = n
  /\ log' = Append(log, "no_iteration")
  /\ pc' = "extract"
  /\ UNCHANGED <<crash, k, n, i, v, download_destination, login_session,
                 login_response, download_response, fetches, files,
                 extracted, final>>

\* ------------------------------------------------ lines 159-208: extraction
\* lines 167-181: how ZipFile(...)/zfp.extract(member, directory) can end
ExtractOutcomes(archive) ==
  CASE archive.kind = "zipMember" -> {"extracted", "IOError"}
    [] archive.kind = "zipNoMember" -> {"KeyError"}
    [] OTHER -> {"BadZipFile"}

\* the except clause of line 177
ExtractCaught(outcome) == outcome \in {"BadZipFile", "IOError"}

\* the extraction directories after zfp.extract
AfterExtract(ex, archive, target, outcome) ==
  IF outcome = "extracted"
    THEN [ex EXCEPT ![target] = [kind |-> "member", id |-> archive.id]]
    ELSE ex

\* lines 193-206: how shutil.copy2(source, final_destination) can end
CopyOutcomes(source) ==
  IF source = Absent THEN {"IOError"} ELSE {"copied", "IOError"}

\* a copy that leaves an existing final destination as it is
AfterCopyKeepsExisting(fin, source, dest, outcome) ==
  IF outcome = "copied" /\ fin[dest] = Absent
    THEN [fin EXCEPT ![dest] = source]
    ELSE fin

\* the final destinations after shutil.copy2: an existing file is replaced
AfterCopy(fin, source, dest, outcome) ==
  IF outcome = "copied" THEN [fin EXCEPT ![dest] = source] ELSE fin

\* lines 160-206: the body of the if of line 159
ExtractAndCopy(c, archive) ==
  LET target == <<DownloadPath(Stem(c.filename)), c.zip_member_to_extract>>
      dest == c.zip_member_final_destination
  IN \E xo \in ExtractOutcomes(archive) :
       IF xo = "extracted" \/ ExtractCaught(xo)
         THEN LET ex == AfterExtract(extracted, archive, target, xo)
                  xmsg == IF xo = "extracted" THEN "extracted"
                                               ELSE "not_extracted"
                  emsg == IF final[dest] # Absent THEN "dest_exists"
                                                  ELSE "dest_not_exists"
              IN \E co \in CopyOutcomes(ex[target]) :
                   /\ extracted' = ex
                   /\ final' = AfterCopy(final, ex[target], dest, co)
                   /\ log' = log \o <<"extracting", xmsg, emsg,
                                      IF co = "copied" THEN "copied"
                                                       ELSE "not_copied">>
                   /\ pc' = "tasks"
                   /\ crash' = crash
         ELSE /\ Raise(xo)
              /\ log' = Append(log, "extracting")
              /\ UNCHANGED <<extracted, final>>

\* line 159: the names v and download_destination are read as the
\* candidate loop left them; download_destination is read only when
\* v['extract_zip'] is true
Extraction ==
  /\ pc = "extract"
  /\ IF v = Unbound
       THEN /\ Raise("NameError")
            /\ UNCHANGED <<extracted, final, log>>
       ELSE IF ~Value(v).extract_zip
         THEN /\ pc' = "tasks"
              /\ UNCHANGED <<crash, extracted, final, log>>
         ELSE IF download_destination = Unbound
           THEN /\ Raise("NameError")
                /\ UNCHANGED <<extracted, final, log>>
           ELSE IF IsZipfile(files[Value(download_destination)])
             THEN ExtractAndCopy(Value(v), files[Value(download_destination)])
             ELSE /\ log' = Append(log, "not_valid_zip")
                  /\ pc' = "tasks"
                  /\ UNCHANGED <<crash, extracted, final>>
  /\ UNCHANGED <<k, n, i, v, download_destination, login_session,
                 login_response, download_response, fetches, files>>

\* ------------------------------------------------ lines 210-213: total time
\* the dictionary is exhausted
Finish ==
  /\ pc = "tasks"
  /\ log' = Append(log, "total_time")
  /\ pc' = "done"
  /\ UNCHANGED <<crash, k, n, i, v, download_destination, login_session,
                 login_response, download_response, fetches, files,
                 extracted, final>>

Next ==
  \/ MakeDownloadDirectory
  \/ Login
  \/ NextTask
  \/ Attempt
  \/ LoopElse
  \/ Extraction
  \/ Finish

Spec == Init /\ [][Next]_vars

\* ------------------------------------------------------------ the log
Count(seq, e) == Cardinality({j \in 1..Len(seq) : seq[j] = e})

Logged(e) == \E j \in 1..Len(log) : log[j] = e

Last(seq) == seq[Len(seq)]

\* messages of the candidate loop
LoopMessages ==
  {"attempt", "started", "completed", "unsuccessful", "not_started",
   "unsupported", "no_iteration"}

\* the candidate loop of task k has been left without an exception
Resolved ==
  /\ k >= 1
  /\ \/ pc \in {"extract", "tasks", "done"}
     \/ pc = "crashed" /\ crash \in {"NameError", "KeyError"}

\* ------------------------------------------------------------------ C1
\* C1 as stated: once the candidate loop of a task has ended, if some
\* candidate of the task returned HTTP 200 then the first candidate that
\* returned 200 was downloaded in full, was the last one attempted, and
\* download_destination is its local path.
C1_FirstOkStatusWins ==
  (pc = "extract" /\ Logged("started")) =>
    LET j == CHOOSE x \in 1..Len(log) :
               log[x] = "started" /\ \A y \in 1..(x - 1) : log[y] # "started"
    IN /\ Len(log) = j + 1
       /\ log[j + 1] = "completed"
       /\ download_destination = Bound(DownloadPath(Value(v).filename))

\* C1 amended: if a candidate of the task returned HTTP 200 and its body
\* was written in full, then it is the first such candidate, no candidate
\* is attempted after it, the loop ends without the no-iteration error, and
\* download_destination is its local path, holding the file this task
\* wrote.
C1_FirstDownloadWins ==
  \A j \in 1..Len(log) :
    log[j] = "completed" =>
      /\ \A m \in 1..Len(log) : m # j => log[m] # "completed"
      /\ \A m \in (j + 1)..Len(log) : log[m] \notin LoopMessages
      /\ pc # "cands"
      /\ v # Unbound
      /\ download_destination = Bound(DownloadPath(Value(v).filename))
      /\ files[Value(download_destination)].id = k
      /\ files[Value(download_destination)].kind \in BodyKinds

\* a second candidate was downloaded after the first one failed
C1_Witness ==
  /\ pc = "extract"
  /\ i = 2
  /\ Len(log) >= 2
  /\ Last(log) = "completed"
  /\ Logged("not_started") \/ Logged("unsuccessful")

C3_ResolutionFailureNotFatal ==
  (pc = "crashed" /\ k >= 1) => crash \notin {"ValueError", "NameError"}

\* ------------------------------------------------------------------ C4
\* C4: no problem of the extraction stage (not a valid archive, the named
\* member missing from it, a corrupt archive, a copy I/O error) ends the
\* run: the run is never over with the exception zfp.extract raises, the
\* KeyError of a member the archive does not hold.
C4_ExtractionNeverRaises ==
  (pc = "crashed" /\ k >= 1) => crash # "KeyError"

\* ------------------------------------------------------------------ C5
\* C5: for a task whose candidate loop attempted a candidate and ended,
\* the extraction step (the archive check, then extract-and-copy or the
\* not-a-valid-zip error) runs exactly if extract_zip is true on the last
\* attempted candidate, and a download that left no file does not end the
\* run with the NameError of line 159.
C5_ExtractionIffRequested ==
  (Resolved /\ i >= 1 /\ v # Unbound) =>
    /\ crash # "NameError"
    /\ pc \in {"tasks", "done"} =>
         ((Logged("extracting") \/ Logged("not_valid_zip"))
            <=> Value(v).extract_zip)

\* ------------------------------------------------------------------ C6
\* the login POST got no response or a 4xx/5xx status
LoginFailed ==
  /\ login_response # Unbound
  /\ \/ Value(login_response) = NoResponse
     \/ Value(login_response) >= 400

\* C6: after a failed login POST the run is over with the ConnectionError
\* of line 110: no task was taken, no candidate was attempted, nothing was
\* logged for a task and no file of the download directory was written.
C6_LoginFailureAborts ==
  LoginFailed =>
    /\ pc = "crashed"
    /\ crash = "ConnectionError"
    /\ k = 0
    /\ i = 0
    /\ log = <<>>
    /\ v = Unbound
    /\ download_destination = Unbound
    /\ \A p \in DownloadPaths : files[p] = Absent

\* the login POST was answered 403 and the run is over
C6_Witness ==
  /\ login_response = Bound(403)
  /\ pc = "crashed"
  /\ crash = "ConnectionError"

\* ------------------------------------------------------------------ C7
\* C7: every run that got past the login and is over has logged the total
\* script execution time.
C7_TotalTimeLogged ==
  (pc \in {"done", "crashed"} /\ login_response # Unbound /\ ~LoginFailed)
    => Logged("total_time")

\* ------------------------------------------------------------------ C8
\* the extraction block is about to run for a candidate that asks for
\* extraction
ExtractionRequested ==
  /\ pc = "extract"
  /\ v # Unbound
  /\ Value(v).extract_zip
  /\ download_destination # Unbound

\* C8: when extract_zip is true on the resolved candidate and the file at
\* download_destination is missing or not an archive, the step logs the
\* not-a-valid-zip error and nothing else, leaves the extraction
\* directories and the final destinations as they are, and the task loop
\* goes on.
C8_NotAZipIsLoggedOnly ==
  [][(ExtractionRequested
        /\ files[Value(download_destination)].kind \in {"notzip", "absent"})
       => /\ log' = Append(log, "not_valid_zip")
          /\ extracted' = extracted
          /\ final' = final
          /\ files' = files
          /\ pc' = "tasks"
          /\ crash' = "none"]_vars

\* a downloaded file that is no archive got the not-a-valid-zip error
C8_Witness ==
  /\ pc = "tasks"
  /\ Logged("completed")
  /\ Last(log) = "not_valid_zip"
  /\ Value(v).extract_zip
  /\ files[Value(download_destination)].kind = "notzip"

\* ------------------------------------------------------------------ C9
\* the step logs the attempt of a candidate
AttemptStep ==
  /\ Len(log') > Len(log)
  /\ log'[Len(log) + 1] = "attempt"

\* the step logs the extraction step
ExtractionStep ==
  /\ Len(log') > Len(log)
  /\ log'[Len(log) + 1] \in {"extracting", "not_valid_zip"}

\* C9: a candidate is attempted only inside the candidate loop of the
\* current task, as the next one of the list, and after the one before it
\* failed; the extraction step runs only after the candidate loop has
\* ended; the task loop takes the next task only after the extraction
\* step of the current one is over.
C9_ConfigurationOrder ==
  [][/\ AttemptStep =>
          /\ pc = "cands"
          /\ k >= 1 /\ k' = k
          /\ i' = i + 1 /\ i' <= n
          /\ i = 0 => log = <<>>
          /\ i >= 1 => Last(log) \in {"not_started", "unsuccessful"}
     /\ ExtractionStep =>
          /\ pc = "extract"
          /\ k' = k /\ i' = i
          /\ Logged("completed") \/ Logged("no_iteration")
     /\ k' # k =>
          /\ k' = k + 1
          /\ pc = "tasks" /\ pc' = "cands"
          /\ i' = 0 /\ log' = <<>>
          /\ k >= 1 =>
               /\ Logged("completed") \/ Logged("no_iteration")
               /\ (v # Unbound /\ Value(v).extract_zip) =>
                    (Logged("extracting") \/ Logged("not_valid_zip"))
     /\ i' # i => (i' = i + 1 /\ k' = k) \/ (i' = 0 /\ k' = k + 1)]_vars

\* the second task downloaded its second candidate after its first one
\* failed, and its extraction step was taken
C9_Witness ==
  /\ k = 2
  /\ i = 2
  /\ pc = "tasks"
  /\ Len(log) >= 6
  /\ log[1] = "attempt"
  /\ log[2] = "not_started"
  /\ log[3] = "attempt"
  /\ log[5] = "completed"
  /\ log[6] = "extracting"

\* ----------------------------------------------------------------- C10
\* C10: when the extraction block runs on an archive that holds the named
\* member and the final destination already exists (as after an earlier
\* run of the same extraction), the step does not raise, logs the
\* already-exists warning, and a copy that succeeds replaces the final
\* destination by the member found in the extraction directory, which is
\* the member of this archive when the extract succeeded.
C10_SecondRunOverwrites ==
  [][(ExtractionRequested
        /\ files[Value(download_destination)].kind = "zipMember"
        /\ final[Value(v).zip_member_final_destination] # Absent)
       => LET c == Value(v)
              target == <<DownloadPath(Stem(c.filename)),
                          c.zip_member_to_extract>>
              dest == c.zip_member_final_destination
          IN /\ pc' = "tasks"
             /\ crash' = "none"
             /\ Len(log') = Len(log) + 4
             /\ log'[Len(log) + 3] = "dest_exists"
             /\ final'[dest] # Absent
             /\ Last(log') = "copied" => final'[dest] = extracted'[target]
             /\ log'[Len(log) + 2] = "extracted" =>
                  extracted'[target] =
                    [kind |-> "member",
                     id |-> files[Value(download_destination)].id]]_vars

\* the second task extracted its member and copied it over the final
\* destination that was already there
C10_Witness ==
  /\ pc = "tasks"
  /\ k = 2
  /\ Len(log) >= 4
  /\ SubSeq(log, Len(log) - 3, Len(log)) =
       <<"extracting", "extracted", "dest_exists", "copied">>
  /\ final[Value(v).zip_member_final_destination] =
       [kind |-> "member", id |-> 2]

\* ----------------------------------------------------------------- C11
\* the step made a download request and the request was answered
AnsweredStep ==
  /\ Len(fetches') = Len(fetches) + 1
  /\ crash' # "RequestException"

\* C11: a download request answered with a status other than 200 (204
\* included) writes no file and binds no download_destination, raises
\* nothing, logs the could-not-be-started warning, and leaves the
\* candidate loop of the same task running at the next candidate.
C11_OtherStatusIsFailure ==
  [][(AnsweredStep /\ Value(download_response') # 200)
       => /\ files' = files
          /\ extracted' = extracted
          /\ final' = final
          /\ download_destination' = download_destination
          /\ crash' = "none"
          /\ log' = log \o <<"attempt", "not_started">>
          /\ pc' = "cands"
          /\ k' = k
          /\ i' = i + 1]_vars

\* the first of two candidates was answered 204 and the loop goes on
C11_Witness ==
  /\ pc = "cands"
  /\ download_response = Bound(204)
  /\ i = 1
  /\ n = 2
  /\ log = <<"attempt", "not_started">>
  /\ \A q \in DownloadPaths : files[q] = Absent

\* ----------------------------------------------------------------- C12
\* C12: when the write of a response with status 200 fails, the
\* candidate loop of the same task goes on with the next candidate and
\* nothing is raised; download_destination is the path of the candidate,
\* and the file there is either as it was (it could not be opened) or the
\* part this task wrote, which is not removed.
C12_FailedWriteFallsThrough ==
  [][(AttemptStep
        /\ Len(log') = Len(log) + 3
        /\ log'[Len(log) + 3] = "unsuccessful")
       => LET path == DownloadPath(Value(v').filename)
          IN /\ Value(download_response') = 200
             /\ pc' = "cands"
             /\ crash' = "none"
             /\ k' = k
             /\ i' = i + 1
             /\ download_destination' = Bound(path)
             /\ \A q \in DownloadPaths \ {path} : files'[q] = files[q]
             /\ \/ files'[path] = files[path]
                \/ /\ files'[path].id = k
                   /\ files'[path].kind \in PartialKinds
             /\ extracted' = extracted
             /\ final' = final]_vars

\* the first of two candidates left a partial file and the loop goes on
C12_Witness ==
  /\ pc = "cands"
  /\ i = 1
  /\ n = 2
  /\ log = <<"attempt", "started", "unsuccessful">>
  /\ files[Value(download_destination)].id = k
  /\ files[Value(download_destination)].kind \in PartialKinds

\* ----------------------------------------------------------------- C13
\* C13: the attempt of a candidate whose method is neither GET nor POST
\* once upper-cased and stripped makes no request and writes nothing, logs
\* the unsupported-method error and raises ValueError; after that no step
\* is taken, so the candidate is not retried and no later candidate of the
\* task is attempted.
C13_UnsupportedMethod ==
  [][/\ (AttemptStep /\ NormMethod(Value(v').method) \notin {GET, POST})
          => /\ fetches' = fetches
             /\ download_response' = download_response
             /\ download_destination' = download_destination
             /\ files' = files
             /\ extracted' = extracted
             /\ final' = final
             /\ log' = log \o <<"attempt", "unsupported">>
             /\ pc' = "crashed"
             /\ crash' = "ValueError"
     /\ crash # "ValueError"]_vars

\* the first of two candidates had an unsupported method
C13_Witness ==
  /\ crash = "ValueError"
  /\ i = 1
  /\ n = 2
  /\ log = <<"attempt", "unsupported">>
  /\ fetches = <<>>
  /\ NormMethod(Value(v).method) = <<"P", "U", "T">>

\* ----------------------------------------------------------------- C14
\* C14: a task whose candidate list is empty only logs its error: no
\* extraction is started and no not-a-zip error is logged for it, since it
\* has no candidate and no file of its own to decide about.
C14_EmptyListSkipsExtraction ==
  (k >= 1 /\ n = 0)
     => /\ ~Logged("extracting")
        /\ ~Logged("not_valid_zip")

\* ----------------------------------------------------------------- C15
\* a step that makes the login request
LoginStep == login_response' # login_response

\* a step that makes a download request
FetchStep == Len(fetches') = Len(fetches) + 1

\* C15: the login request is made only while no session exists, so once
\* per run; a session, once made, is never replaced; and every download
\* request is made after a login that raised nothing, on that session.
C15_OneLoginOneSession ==
  [][/\ LoginStep => login_session = Unbound
     /\ login_session # Unbound => login_session' = login_session
     /\ FetchStep
          => /\ login_session = Bound([id |-> 1, logins |-> 1])
             /\ login_response # Unbound
             /\ Value(login_response) \in 1..399
             /\ fetches'[Len(fetches')] = Value(login_session).id]_vars

\* the second task has made two requests on the session of the login
C15_Witness ==
  /\ k = 2
  /\ fetches = <<1, 1>>
  /\ login_session = Bound([id |-> 1, logins |-> 1])
  /\ login_response = Bound(200)
  /\ pc = "cands"
  /\ crash = "none"

\* ----------------------------------------------------------------- C16
\* d is the longest prefix of s without a period: it ends at the first
\* period of s, or is all of s when s has none
IsFirstPeriodPrefix(d, s) ==
  \E len \in 0..Len(s) :
     /\ d = SubSeq(s, 1, len)
     /\ \A j \in 1..len : s[j] # "."
     /\ len = Len(s) \/ s[len + 1] = "."

\* filenames with no, one, two, leading, trailing and doubled periods
StemInputs ==
  Filenames \cup { <<>>, <<"a">>, <<"a", "b">>, <<".">>, <<".", "a">>,
                   <<"a", ".">>, <<"a", ".", ".", "z">>,
                   <<"a", "b", ".", "t", ".", "g">> }

\* the path the member of candidate c is extracted to, by the rule above
IsExtractionPath(p, c) ==
  /\ p[1][1] = "download_directory"
  /\ IsFirstPeriodPrefix(p[1][2], c.filename)
  /\ p[2] = c.zip_member_to_extract

C17_ExtractsOwnDownload ==
  (Logged("attempt") /\ Logged("extracting"))
     => files[Value(download_destination)].id = k

\* ----------------------------------------------------------------- C18
\* C18: a task copies to the final destination only after it has
\* extracted the member itself; a file an earlier extraction left in the
\* extraction directory is not copied when this task's extraction failed.
C18_CopyOnlyAfterExtraction ==
  Logged("copied") => Logged("extracted")

\* ----------------------------------------------------------------- C19
\* the order of the script's positions
PcRank ==
  CASE pc = "mkdir" -> 0
    [] pc = "login" -> 1
    [] pc = "cands" -> 2
    [] pc = "extract" -> 3
    [] pc = "tasks" -> 4
    [] pc = "done" -> 5
    [] pc = "crashed" -> 6

\* the step moves the script forward: to a later task, or within the
\* task to a later position, or within the candidate loop to a later
\* candidate
Progress ==
  \/ k' > k
  \/ k' = k /\ PcRank' > PcRank
  \/ k' = k /\ PcRank' = PcRank /\ i' > i

\* the script has ended, normally or with an uncaught exception
Ended == pc \in {"done", "crashed"}

\* C19: every download request is made for a candidate the loop has not
\* taken before, so a task makes at most as many requests as it has
\* candidates; every step moves the script forward through the finite
\* configuration, and the script can take a step until it has ended, so
\* no candidate is retried and the run ends.
C19_BoundedFetches ==
  /\ [](Ended \/ ENABLED Next)
  /\ [][/\ FetchStep => (k' = k /\ i' = i + 1)
        /\ Len(fetches') <= i'
        /\ i' <= n'
        /\ n' <= MaxCands
        /\ k' <= MaxTasks
        /\ Progress]_vars

\* the run ended after a last task that requested each of its two
\* candidates once
C19_Witness ==
  /\ pc = "done"
  /\ k = 2
  /\ n = 2
  /\ fetches = <<1, 1>>
  /\ Count(log, "attempt") = 2

====
